---- MODULE Spec2Model ----
(***************************************************************************)
(* yagalog: a leveled logger with console output and an optional file     *)
(* sink.  The model follows package logger statement by statement: every  *)
(* read or write of a shared field (level, logFile, mu) and every file    *)
(* system call is one step of the calling thread, so that concurrent      *)
(* callers interleave exactly where goroutines can.  The unsynchronized    *)
(* reads of l.level and l.logFile see the value before or after a          *)
(* concurrent write.  A write to an open file succeeds; it fails on a nil  *)
(* or closed file.  Message text, time layout and caller capture are not    *)
(* part of the state: the console is its number of lines and whether the   *)
(* last one carried a coloured prefix; a file record is its level, the     *)
(* handle used, the timestamp it carries and whether it is a JSON entry.   *)
(* Spec covers the level methods and the life of the file sink;            *)
(* ModesSpec adds the WithJSON and WithColors settings, TimeSpec a clock   *)
(* that advances, FairSpec the scheduling under which calls terminate.     *)
(***************************************************************************)
EXTENDS Integers, Sequences, FiniteSets, TLC

(* LogLevel enumeration *)
DEBUG == 0
INFO == 1
WARNING == 2
ERROR == 3
FATAL == 4

Levels == {DEBUG, INFO, WARNING, ERROR, FATAL}

(* Bound on the number of public calls made on the instance. *)
MaxOps == 3

(* Bound on the readings of the clock. *)
MaxClock == 2

(* Goroutines sharing the instance. *)
Threads == {1, 2}

(* Paths handed to WithFilePath / EnableFile.  Opening "bad" fails. *)
GoodPaths == {"a", "b"}
Paths == GoodPaths \cup {"bad"}

(* Paths handed to NewLogger: none, one that opens, one that does not. *)
CtorPaths == {"", "a", "bad"}

(* the nil os.File pointer, and the unlocked sync.Mutex *)
NoFile == 0
Unlocked == 0

VARIABLES
    inst,      \* "none" before NewLogger, "ok" / "failed" after it
    level,     \* l.level
    logFile,   \* l.logFile: index into handles, NoFile for nil
    mu,        \* l.mu: Unlocked or the thread holding it
    handles,   \* every os.File opened so far: [path, open, from, by] (who opened, who closed)
    files,     \* contents of the files on disk, one record per line
    console,   \* number of lines printed on l.out
    exited,    \* os.Exit has been called
    exitCode,  \* its status
    pc,        \* position of each thread
    sev,       \* severity of the level method a thread is in
    arg,       \* path argument of the EnableFile a thread is in
    fh,        \* local os.File of a thread (f in EnableFile, receiver in Close)
    ret,       \* outcome of the call a thread is in
    cons,      \* console lines printed by the level call a thread is in
    recs,      \* file records appended by the level call a thread is in
    atts,      \* file writes attempted by the level call a thread is in
    quiet,     \* no other thread took a step during the call
    nops,      \* number of calls made so far
    jsonMode,  \* l.jsonMode
    noColor,   \* color.NoColor, shared by the process
    prefixColored, \* the prefixes of the console loggers carry colour codes
    lastColored,   \* the last console line carried a coloured prefix
    clock,     \* time.Now()
    ts,        \* nowStr of the log call a thread is in
    js         \* the branch a thread took at "if l.jsonMode"

vars == <<inst, level, logFile, mu, handles, files, console, exited, exitCode,
          pc, sev, arg, fh, ret, cons, recs, atts, quiet, nops,
          jsonMode, noColor, prefixColored, lastColored, clock, ts, js>>

shared == <<inst, level, logFile, mu, handles, files, console, exited, exitCode>>
ghosts == <<cons, recs, atts>>
config == <<jsonMode, noColor, prefixColored>>
stamp == <<clock, ts, js>>

----------------------------------------------------------------------------
(* Helpers translated from the code *)

(* os.OpenFile(path, O_APPEND|O_CREATE|O_WRONLY, 0666) succeeds *)
OpenOK(p) == p \in GoodPaths

(* the handle table after a successful os.OpenFile called from `who`; the new *)
(* handle is the last                                                        *)
OpenFile(hs, p, who) == Append(hs, [path |-> p, open |-> TRUE, from |-> who, by |-> "nobody"])

(* h is a usable os.File: non-nil and not yet closed *)
IsOpen(hs, h) == h # NoFile /\ hs[h].open

(* os.File.Close: error on a nil or already closed file *)
CloseErr(hs, h) == ~IsOpen(hs, h)

(* os.File.Close called from `who`: the descriptor is released once *)
CloseFile(hs, h, who) ==
    IF IsOpen(hs, h) THEN [hs EXCEPT ![h] = [@ EXCEPT !.open = FALSE, !.by = who]] ELSE hs

(* l.mu.Lock(): blocks until the mutex is free, then holds it *)
Lock(t) == mu = Unlocked /\ mu' = t

(* fmt.Fprintln(l.logFile, line) / enc.Encode(entry): one Write of one line; *)
(* it fails, appending nothing, on a nil or closed file                      *)
Fprintln(fs, hs, h, rec) ==
    IF IsOpen(hs, h)
    THEN [fs EXCEPT ![hs[h].path] = Append(@, rec)]
    ELSE fs

(* the guard off by one: the severity just below the threshold passes *)
MethodGuardOffByOne(S, T) == T > S + 1

(* leading guard of Debug/Info/Warning/Error/Fatal: TRUE means return *)
MethodGuard(S, T) == T > S

(* the guard with <= for <: a severity equal to the threshold is dropped *)
LevelGuardInclusive(S, T) == S <= T

(* level guard of log: TRUE means return *)
LevelGuard(S, T) == S < T

(* the file sink is open: the instance holds a handle and it is open *)
SinkOpen == IsOpen(handles, logFile)

(* os.Exit reached from every level method *)
AfterLogAlways(t) == "exit"

(* where a level method continues once log has returned: Fatal calls os.Exit *)
AfterLog(t) == IF sev[t] = FATAL THEN "exit" ELSE "done"

(* a step of t disturbs the calls the other threads are in *)
Quiet(t) == [u \in Threads |-> IF u # t THEN FALSE ELSE quiet[u]]

Running(t) == inst = "ok" /\ ~exited

----------------------------------------------------------------------------
Init ==
    /\ inst = "none"
    /\ level = DEBUG
    /\ logFile = NoFile
    /\ mu = Unlocked
    /\ handles = << >>
    /\ files = [p \in GoodPaths |-> << >>]
    /\ console = 0
    /\ exited = FALSE
    /\ exitCode = 0
    /\ pc = [t \in Threads |-> "idle"]
    /\ sev = [t \in Threads |-> DEBUG]
    /\ arg = [t \in Threads |-> ""]
    /\ fh = [t \in Threads |-> NoFile]
    /\ ret = [t \in Threads |-> "none"]
    /\ cons = [t \in Threads |-> 0]
    /\ recs = [t \in Threads |-> 0]
    /\ atts = [t \in Threads |-> 0]
    /\ quiet = [t \in Threads |-> FALSE]
    /\ nops = 0
    /\ jsonMode = FALSE
    /\ noColor = FALSE
    /\ prefixColored = FALSE
    /\ lastColored = FALSE
    /\ clock = 0
    /\ ts = [t \in Threads |-> 0]
    /\ js = [t \in Threads |-> FALSE]

(* color.NoColor once NewLogger has applied the WithColors option c and the *)
(* environment e: FORCE_COLOR, then NO_COLOR, override the option            *)
NoColorAfter(c, e) ==
    IF e = "FORCE_COLOR" THEN FALSE
    ELSE IF e = "NO_COLOR" THEN TRUE
    ELSE IF c = "on" THEN FALSE
    ELSE IF c = "off" THEN TRUE
    ELSE noColor

(* NewLogger(opts...): p the WithFilePath path ("" for none), j whether       *)
(* WithJSON() is among the options, c the WithColors option ("default" for    *)
(* none), e the colour variable set in the environment ("" for none).  The    *)
(* prefixes of the console loggers are built here, coloured or not as         *)
(* color.NoColor stands at this moment.  The level keeps its default;         *)
(* WithLevel(lv) is SetLevel(lv) before the first call.                       *)
NewLoggerOpts(p, j, c, e) ==
    /\ inst = "none"
    /\ level' = DEBUG
    /\ jsonMode' = j
    /\ noColor' = NoColorAfter(c, e)
    /\ prefixColored' = ~noColor'
    /\ IF p = ""
       THEN /\ inst' = "ok"
            /\ UNCHANGED <<logFile, handles>>
       ELSE IF OpenOK(p)
            THEN /\ handles' = OpenFile(handles, p, "NewLogger")
                 /\ logFile' = Len(handles')
                 /\ inst' = "ok"
            ELSE /\ inst' = "failed"
                 /\ UNCHANGED <<logFile, handles>>
    /\ UNCHANGED <<mu, files, console, exited, exitCode, pc, sev, arg, fh, ret,
                   cons, recs, atts, quiet, nops, lastColored, stamp>>

(* NewLogger returning the instance although the open failed *)
NewLoggerPartial(p) ==
    /\ inst = "none"
    /\ level' = DEBUG
    /\ jsonMode' = FALSE
    /\ noColor' = noColor
    /\ prefixColored' = ~noColor'
    /\ inst' = "ok"
    /\ IF p # "" /\ OpenOK(p)
       THEN /\ handles' = OpenFile(handles, p, "NewLogger")
            /\ logFile' = Len(handles')
       ELSE UNCHANGED <<logFile, handles>>
    /\ UNCHANGED <<mu, files, console, exited, exitCode, pc, sev, arg, fh, ret,
                   cons, recs, atts, quiet, nops, lastColored, stamp>>

(* NewLogger() when p = "", NewLogger(WithFilePath(p)) otherwise *)
NewLogger(p) == NewLoggerOpts(p, FALSE, "default", "")

----------------------------------------------------------------------------
(* Debug / Info / Warning / Error / Fatal and log *)

(* a thread calls the level method of severity S *)
CallLevel(t, S) ==
    /\ Running(t) /\ pc[t] = "idle" /\ nops < MaxOps
    /\ pc' = [pc EXCEPT ![t] = "m_gate"]
    /\ sev' = [sev EXCEPT ![t] = S]
    /\ quiet' = [Quiet(t) EXCEPT ![t] = TRUE]
    /\ nops' = nops + 1
    /\ UNCHANGED <<shared, arg, fh, ret, ghosts>>
    /\ UNCHANGED <<config, lastColored, stamp>>

(* if l.level > S { return } *)
MethodGate(t) ==
    /\ Running(t) /\ pc[t] = "m_gate"
    /\ IF MethodGuard(sev[t], level)
       THEN /\ pc' = [pc EXCEPT ![t] = "done"]
            /\ ret' = [ret EXCEPT ![t] = "suppressed"]
       ELSE /\ pc' = [pc EXCEPT ![t] = "l_gate"]
            /\ UNCHANGED ret
    /\ quiet' = Quiet(t)
    /\ UNCHANGED <<shared, sev, arg, fh, ghosts, nops>>
    /\ UNCHANGED <<config, lastColored, stamp>>

(* log: if level < l.level { return } *)
LogGate(t) ==
    /\ Running(t) /\ pc[t] = "l_gate"
    /\ IF LevelGuard(sev[t], level)
       THEN /\ pc' = [pc EXCEPT ![t] = AfterLog(t)]
            /\ ret' = [ret EXCEPT ![t] = "gated"]
       ELSE /\ pc' = [pc EXCEPT ![t] = "console"]
            /\ UNCHANGED ret
    /\ quiet' = Quiet(t)
    /\ UNCHANGED <<shared, sev, arg, fh, ghosts, nops>>
    /\ UNCHANGED <<config, lastColored, stamp>>

(* the console line printed only once the mutex is free *)
ConsolePrintlnLocked(t) ==
    /\ Running(t) /\ pc[t] = "console"
    /\ mu = Unlocked
    /\ console' = console + 1
    /\ cons' = [cons EXCEPT ![t] = @ + 1]
    /\ pc' = [pc EXCEPT ![t] = "nil_check"]
    /\ quiet' = Quiet(t)
    /\ UNCHANGED <<inst, level, logFile, mu, handles, files, exited, exitCode,
                   sev, arg, fh, ret, recs, atts, nops>>
    /\ lastColored' = prefixColored
    /\ UNCHANGED <<config, stamp>>

(* log: l.<level>Logger.Println(msg) *)
ConsolePrintln(t) ==
    /\ Running(t) /\ pc[t] = "console"
    /\ console' = console + 1
    /\ cons' = [cons EXCEPT ![t] = @ + 1]
    /\ pc' = [pc EXCEPT ![t] = "nil_check"]
    /\ quiet' = Quiet(t)
    /\ UNCHANGED <<inst, level, logFile, mu, handles, files, exited, exitCode,
                   sev, arg, fh, ret, recs, atts, nops>>
    /\ lastColored' = prefixColored
    /\ UNCHANGED <<config, stamp>>

(* log: if l.logFile == nil { return } *)
NilCheck(t) ==
    /\ Running(t) /\ pc[t] = "nil_check"
    /\ IF logFile = NoFile
       THEN /\ pc' = [pc EXCEPT ![t] = AfterLog(t)]
            /\ ret' = [ret EXCEPT ![t] = "logged"]
       ELSE /\ pc' = [pc EXCEPT ![t] = "now"]
            /\ UNCHANGED ret
    /\ quiet' = Quiet(t)
    /\ UNCHANGED <<shared, sev, arg, fh, ghosts, nops>>
    /\ UNCHANGED <<config, lastColored, stamp>>

(* the time of day without the date: it starts again from zero *)
NowWrapped(t) ==
    /\ Running(t) /\ pc[t] = "now"
    /\ ts' = [ts EXCEPT ![t] = clock % 2]
    /\ pc' = [pc EXCEPT ![t] = "lock"]
    /\ quiet' = Quiet(t)
    /\ UNCHANGED <<shared, sev, arg, fh, ret, ghosts, nops>>
    /\ UNCHANGED <<config, lastColored, clock, js>>

(* log: nowStr := time.Now().Format(l.timeFormat) *)
Now(t) ==
    /\ Running(t) /\ pc[t] = "now"
    /\ ts' = [ts EXCEPT ![t] = clock]
    /\ pc' = [pc EXCEPT ![t] = "lock"]
    /\ quiet' = Quiet(t)
    /\ UNCHANGED <<shared, sev, arg, fh, ret, ghosts, nops>>
    /\ UNCHANGED <<config, lastColored, clock, js>>

(* log without its l.mu.Lock() *)
LogLockMissing(t) ==
    /\ Running(t) /\ pc[t] = "lock"
    /\ pc' = [pc EXCEPT ![t] = "write"]
    /\ quiet' = Quiet(t)
    /\ UNCHANGED <<shared, sev, arg, fh, ret, ghosts, nops>>
    /\ js' = [js EXCEPT ![t] = jsonMode]
    /\ UNCHANGED <<config, lastColored, clock, ts>>

(* log: l.mu.Lock(), then the test of l.jsonMode made with the mutex held *)
LogLock(t) ==
    /\ Running(t) /\ pc[t] = "lock"
    /\ Lock(t)
    /\ pc' = [pc EXCEPT ![t] = "write"]
    /\ quiet' = Quiet(t)
    /\ UNCHANGED <<inst, level, logFile, handles, files, console, exited, exitCode,
                   sev, arg, fh, ret, ghosts, nops>>
    /\ js' = [js EXCEPT ![t] = jsonMode]
    /\ UNCHANGED <<config, lastColored, clock, ts>>

(* log: the entry (167-176) or the line (181-183) of the call *)
Record(t) == [sev |-> sev[t], h |-> logFile, ts |-> ts[t], json |-> js[t]]

(* the write repeated until it succeeds *)
FileWriteRetry(t) ==
    /\ Running(t) /\ pc[t] = "write"
    /\ files' = Fprintln(files, handles, logFile, Record(t))
    /\ atts' = [atts EXCEPT ![t] = @ + 1]
    /\ recs' = [recs EXCEPT ![t] = IF files' # files THEN @ + 1 ELSE @]
    /\ pc' = [pc EXCEPT ![t] = IF files' # files THEN "unlock" ELSE "write"]
    /\ quiet' = Quiet(t)
    /\ UNCHANGED <<inst, level, logFile, mu, handles, console, exited, exitCode,
                   sev, arg, fh, ret, cons, nops>>
    /\ UNCHANGED <<config, lastColored, stamp>>

(* log: enc.Encode(entry) or fmt.Fprintln(l.logFile, line), error dropped *)
FileWrite(t) ==
    /\ Running(t) /\ pc[t] = "write"
    /\ files' = Fprintln(files, handles, logFile, Record(t))
    /\ atts' = [atts EXCEPT ![t] = @ + 1]
    /\ recs' = [recs EXCEPT ![t] = IF files' # files THEN @ + 1 ELSE @]
    /\ pc' = [pc EXCEPT ![t] = "unlock"]
    /\ quiet' = Quiet(t)
    /\ UNCHANGED <<inst, level, logFile, mu, handles, console, exited, exitCode,
                   sev, arg, fh, ret, cons, nops>>
    /\ UNCHANGED <<config, lastColored, stamp>>

(* log: the deferred l.mu.Unlock(), and the return *)
LogUnlock(t) ==
    /\ Running(t) /\ pc[t] = "unlock"
    /\ mu' = Unlocked
    /\ pc' = [pc EXCEPT ![t] = AfterLog(t)]
    /\ ret' = [ret EXCEPT ![t] = "logged"]
    /\ quiet' = Quiet(t)
    /\ UNCHANGED <<inst, level, logFile, handles, files, console, exited, exitCode,
                   sev, arg, fh, ghosts, nops>>
    /\ UNCHANGED <<config, lastColored, stamp>>

(* Fatal: os.Exit(1) *)
Exit(t) ==
    /\ Running(t) /\ pc[t] = "exit"
    /\ exited' = TRUE
    /\ exitCode' = 1
    /\ pc' = [pc EXCEPT ![t] = "exited"]
    /\ quiet' = Quiet(t)
    /\ UNCHANGED <<inst, level, logFile, mu, handles, files, console,
                   sev, arg, fh, ret, ghosts, nops>>
    /\ UNCHANGED <<config, lastColored, stamp>>

(* SetLevel(lv) *)
SetLevel(t, lv) ==
    /\ Running(t) /\ pc[t] = "idle" /\ nops < MaxOps
    /\ level' = lv
    /\ nops' = nops + 1
    /\ quiet' = Quiet(t)
    /\ UNCHANGED <<inst, logFile, mu, handles, files, console, exited, exitCode,
                   pc, sev, arg, fh, ret, ghosts>>
    /\ UNCHANGED <<config, lastColored, stamp>>

(* WithJSON switching the mode over instead of on *)
WithJSONToggle(t) ==
    /\ Running(t) /\ pc[t] = "idle" /\ nops < MaxOps
    /\ jsonMode' = ~jsonMode
    /\ nops' = nops + 1
    /\ quiet' = Quiet(t)
    /\ UNCHANGED <<shared, pc, sev, arg, fh, ret, ghosts>>
    /\ UNCHANGED <<noColor, prefixColored, lastColored, stamp>>

(* WithJSON() *)
WithJSON(t) ==
    /\ Running(t) /\ pc[t] = "idle" /\ nops < MaxOps
    /\ jsonMode' = TRUE
    /\ nops' = nops + 1
    /\ quiet' = Quiet(t)
    /\ UNCHANGED <<shared, pc, sev, arg, fh, ret, ghosts>>
    /\ UNCHANGED <<noColor, prefixColored, lastColored, stamp>>

(* WithColors(enable) *)
WithColors(t, enable) ==
    /\ Running(t) /\ pc[t] = "idle" /\ nops < MaxOps
    /\ noColor' = ~enable
    /\ nops' = nops + 1
    /\ quiet' = Quiet(t)
    /\ UNCHANGED <<shared, pc, sev, arg, fh, ret, ghosts>>
    /\ UNCHANGED <<jsonMode, prefixColored, lastColored, stamp>>

(* the clock advances *)
Tick ==
    /\ inst = "ok" /\ ~exited
    /\ clock < MaxClock
    /\ clock' = clock + 1
    /\ UNCHANGED <<shared, pc, sev, arg, fh, ret, ghosts, quiet, nops>>
    /\ UNCHANGED <<config, lastColored, ts, js>>

(* the call returns to its caller, whose next call starts afresh *)
Return(t) ==
    /\ Running(t) /\ pc[t] = "done"
    /\ pc' = [pc EXCEPT ![t] = "idle"]
    /\ sev' = [sev EXCEPT ![t] = DEBUG]
    /\ arg' = [arg EXCEPT ![t] = ""]
    /\ fh' = [fh EXCEPT ![t] = NoFile]
    /\ ret' = [ret EXCEPT ![t] = "none"]
    /\ cons' = [cons EXCEPT ![t] = 0]
    /\ recs' = [recs EXCEPT ![t] = 0]
    /\ atts' = [atts EXCEPT ![t] = 0]
    /\ quiet' = [Quiet(t) EXCEPT ![t] = FALSE]
    /\ UNCHANGED <<shared, nops>>
    /\ ts' = [ts EXCEPT ![t] = 0]
    /\ js' = [js EXCEPT ![t] = FALSE]
    /\ UNCHANGED <<config, lastColored, clock>>

----------------------------------------------------------------------------
(* Close *)

CallClose(t) ==
    /\ Running(t) /\ pc[t] = "idle" /\ nops < MaxOps
    /\ pc' = [pc EXCEPT ![t] = "cl_check"]
    /\ quiet' = [Quiet(t) EXCEPT ![t] = TRUE]
    /\ nops' = nops + 1
    /\ UNCHANGED <<shared, sev, arg, fh, ret, ghosts>>
    /\ UNCHANGED <<config, lastColored, stamp>>

(* if l.logFile == nil { return nil } *)
CloseCheck(t) ==
    /\ Running(t) /\ pc[t] = "cl_check"
    /\ IF logFile = NoFile
       THEN /\ pc' = [pc EXCEPT ![t] = "done"]
            /\ ret' = [ret EXCEPT ![t] = "close_ok"]
       ELSE /\ pc' = [pc EXCEPT ![t] = "cl_read"]
            /\ UNCHANGED ret
    /\ quiet' = Quiet(t)
    /\ UNCHANGED <<shared, sev, arg, fh, ghosts, nops>>
    /\ UNCHANGED <<config, lastColored, stamp>>

(* return l.logFile.Close(): the receiver is read again *)
CloseRead(t) ==
    /\ Running(t) /\ pc[t] = "cl_read"
    /\ fh' = [fh EXCEPT ![t] = logFile]
    /\ pc' = [pc EXCEPT ![t] = "cl_close"]
    /\ quiet' = Quiet(t)
    /\ UNCHANGED <<shared, sev, arg, ret, ghosts, nops>>
    /\ UNCHANGED <<config, lastColored, stamp>>

(* return l.logFile.Close(): the file is closed, l.logFile is left as it is *)
CloseClose(t) ==
    /\ Running(t) /\ pc[t] = "cl_close"
    /\ handles' = CloseFile(handles, fh[t], "Close")
    /\ ret' = [ret EXCEPT ![t] = IF CloseErr(handles, fh[t]) THEN "close_err" ELSE "close_ok"]
    /\ pc' = [pc EXCEPT ![t] = "done"]
    /\ quiet' = Quiet(t)
    /\ UNCHANGED <<inst, level, logFile, mu, files, console, exited, exitCode,
                   sev, arg, fh, ghosts, nops>>
    /\ UNCHANGED <<config, lastColored, stamp>>

----------------------------------------------------------------------------
(* DisableFile *)

CallDisable(t) ==
    /\ Running(t) /\ pc[t] = "idle" /\ nops < MaxOps
    /\ pc' = [pc EXCEPT ![t] = "dis_lock"]
    /\ quiet' = [Quiet(t) EXCEPT ![t] = TRUE]
    /\ nops' = nops + 1
    /\ UNCHANGED <<shared, sev, arg, fh, ret, ghosts>>
    /\ UNCHANGED <<config, lastColored, stamp>>

(* l.mu.Lock() *)
DisLock(t) ==
    /\ Running(t) /\ pc[t] = "dis_lock"
    /\ Lock(t)
    /\ pc' = [pc EXCEPT ![t] = "dis_close"]
    /\ quiet' = Quiet(t)
    /\ UNCHANGED <<inst, level, logFile, handles, files, console, exited, exitCode,
                   sev, arg, fh, ret, ghosts, nops>>
    /\ UNCHANGED <<config, lastColored, stamp>>

(* if l.logFile != nil { _ = l.logFile.Close() ... *)
DisClose(t) ==
    /\ Running(t) /\ pc[t] = "dis_close"
    /\ IF logFile # NoFile
       THEN /\ handles' = CloseFile(handles, logFile, "DisableFile")
            /\ pc' = [pc EXCEPT ![t] = "dis_nil"]
       ELSE /\ pc' = [pc EXCEPT ![t] = "dis_unlock"]
            /\ UNCHANGED handles
    /\ quiet' = Quiet(t)
    /\ UNCHANGED <<inst, level, logFile, mu, files, console, exited, exitCode,
                   sev, arg, fh, ret, ghosts, nops>>
    /\ UNCHANGED <<config, lastColored, stamp>>

(* DisableFile without l.logFile = nil *)
DisNilMissing(t) ==
    /\ Running(t) /\ pc[t] = "dis_nil"
    /\ pc' = [pc EXCEPT ![t] = "dis_unlock"]
    /\ quiet' = Quiet(t)
    /\ UNCHANGED <<shared, sev, arg, fh, ret, ghosts, nops>>
    /\ UNCHANGED <<config, lastColored, stamp>>

(* ... l.logFile = nil } *)
DisNil(t) ==
    /\ Running(t) /\ pc[t] = "dis_nil"
    /\ logFile' = NoFile
    /\ pc' = [pc EXCEPT ![t] = "dis_unlock"]
    /\ quiet' = Quiet(t)
    /\ UNCHANGED <<inst, level, mu, handles, files, console, exited, exitCode,
                   sev, arg, fh, ret, ghosts, nops>>
    /\ UNCHANGED <<config, lastColored, stamp>>

(* the deferred l.mu.Unlock(), and the return *)
DisUnlock(t) ==
    /\ Running(t) /\ pc[t] = "dis_unlock"
    /\ mu' = Unlocked
    /\ pc' = [pc EXCEPT ![t] = "done"]
    /\ ret' = [ret EXCEPT ![t] = "disabled"]
    /\ quiet' = Quiet(t)
    /\ UNCHANGED <<inst, level, logFile, handles, files, console, exited, exitCode,
                   sev, arg, fh, ghosts, nops>>
    /\ UNCHANGED <<config, lastColored, stamp>>

----------------------------------------------------------------------------
(* EnableFile(path) *)

CallEnable(t, p) ==
    /\ Running(t) /\ pc[t] = "idle" /\ nops < MaxOps
    /\ pc' = [pc EXCEPT ![t] = "en_lock"]
    /\ arg' = [arg EXCEPT ![t] = p]
    /\ quiet' = [Quiet(t) EXCEPT ![t] = TRUE]
    /\ nops' = nops + 1
    /\ UNCHANGED <<shared, sev, fh, ret, ghosts>>
    /\ UNCHANGED <<config, lastColored, stamp>>

(* l.mu.Lock() *)
EnLock(t) ==
    /\ Running(t) /\ pc[t] = "en_lock"
    /\ Lock(t)
    /\ pc' = [pc EXCEPT ![t] = "en_close"]
    /\ quiet' = Quiet(t)
    /\ UNCHANGED <<inst, level, logFile, handles, files, console, exited, exitCode,
                   sev, arg, fh, ret, ghosts, nops>>
    /\ UNCHANGED <<config, lastColored, stamp>>

(* EnableFile without the Close of the handle it replaces *)
EnCloseLeak(t) ==
    /\ Running(t) /\ pc[t] = "en_close"
    /\ pc' = [pc EXCEPT ![t] = "en_open"]
    /\ quiet' = Quiet(t)
    /\ UNCHANGED <<shared, sev, arg, fh, ret, ghosts, nops>>
    /\ UNCHANGED <<config, lastColored, stamp>>

(* if l.logFile != nil { _ = l.logFile.Close() } *)
EnClose(t) ==
    /\ Running(t) /\ pc[t] = "en_close"
    /\ handles' = IF logFile # NoFile
                  THEN CloseFile(handles, logFile, "EnableFile")
                  ELSE handles
    /\ pc' = [pc EXCEPT ![t] = "en_open"]
    /\ quiet' = Quiet(t)
    /\ UNCHANGED <<inst, level, logFile, mu, files, console, exited, exitCode,
                   sev, arg, fh, ret, ghosts, nops>>
    /\ UNCHANGED <<config, lastColored, stamp>>

(* EnableFile returning the error of os.OpenFile with the mutex still held *)
EnOpenNoUnlock(t) ==
    /\ Running(t) /\ pc[t] = "en_open"
    /\ IF OpenOK(arg[t])
       THEN /\ handles' = OpenFile(handles, arg[t], "EnableFile")
            /\ fh' = [fh EXCEPT ![t] = Len(handles')]
            /\ pc' = [pc EXCEPT ![t] = "en_assign"]
            /\ UNCHANGED ret
       ELSE /\ ret' = [ret EXCEPT ![t] = "enable_err"]
            /\ pc' = [pc EXCEPT ![t] = "done"]
            /\ UNCHANGED <<handles, fh>>
    /\ quiet' = Quiet(t)
    /\ UNCHANGED <<inst, level, logFile, mu, files, console, exited, exitCode,
                   sev, arg, ghosts, nops>>
    /\ UNCHANGED <<config, lastColored, stamp>>

(* f, err := os.OpenFile(path, ...); if err != nil { return err } *)
EnOpen(t) ==
    /\ Running(t) /\ pc[t] = "en_open"
    /\ IF OpenOK(arg[t])
       THEN /\ handles' = OpenFile(handles, arg[t], "EnableFile")
            /\ fh' = [fh EXCEPT ![t] = Len(handles')]
            /\ pc' = [pc EXCEPT ![t] = "en_assign"]
            /\ UNCHANGED ret
       ELSE /\ ret' = [ret EXCEPT ![t] = "enable_err"]
            /\ pc' = [pc EXCEPT ![t] = "en_unlock"]
            /\ UNCHANGED <<handles, fh>>
    /\ quiet' = Quiet(t)
    /\ UNCHANGED <<inst, level, logFile, mu, files, console, exited, exitCode,
                   sev, arg, ghosts, nops>>
    /\ UNCHANGED <<config, lastColored, stamp>>

(* EnableFile returning nil without l.logFile = f *)
EnAssignMissing(t) ==
    /\ Running(t) /\ pc[t] = "en_assign"
    /\ ret' = [ret EXCEPT ![t] = "enable_ok"]
    /\ pc' = [pc EXCEPT ![t] = "en_unlock"]
    /\ quiet' = Quiet(t)
    /\ UNCHANGED <<shared, sev, arg, fh, ghosts, nops>>
    /\ UNCHANGED <<config, lastColored, stamp>>

(* l.logFile = f; return nil *)
EnAssign(t) ==
    /\ Running(t) /\ pc[t] = "en_assign"
    /\ logFile' = fh[t]
    /\ ret' = [ret EXCEPT ![t] = "enable_ok"]
    /\ pc' = [pc EXCEPT ![t] = "en_unlock"]
    /\ quiet' = Quiet(t)
    /\ UNCHANGED <<inst, level, mu, handles, files, console, exited, exitCode,
                   sev, arg, fh, ghosts, nops>>
    /\ UNCHANGED <<config, lastColored, stamp>>

(* the deferred l.mu.Unlock(), and the return *)
EnUnlock(t) ==
    /\ Running(t) /\ pc[t] = "en_unlock"
    /\ mu' = Unlocked
    /\ pc' = [pc EXCEPT ![t] = "done"]
    /\ quiet' = Quiet(t)
    /\ UNCHANGED <<inst, level, logFile, handles, files, console, exited, exitCode,
                   sev, arg, fh, ret, ghosts, nops>>
    /\ UNCHANGED <<config, lastColored, stamp>>

----------------------------------------------------------------------------
Next ==
    \/ \E p \in CtorPaths : NewLogger(p)
    \/ \E t \in Threads, S \in Levels : CallLevel(t, S)
    \/ \E t \in Threads : MethodGate(t)
    \/ \E t \in Threads : LogGate(t)
    \/ \E t \in Threads : ConsolePrintln(t)
    \/ \E t \in Threads : NilCheck(t)
    \/ \E t \in Threads : Now(t)
    \/ \E t \in Threads : LogLock(t)
    \/ \E t \in Threads : FileWrite(t)
    \/ \E t \in Threads : LogUnlock(t)
    \/ \E t \in Threads : Exit(t)
    \/ \E t \in Threads, lv \in Levels : SetLevel(t, lv)
    \/ \E t \in Threads : Return(t)
    \/ \E t \in Threads : CallClose(t)
    \/ \E t \in Threads : CloseCheck(t)
    \/ \E t \in Threads : CloseRead(t)
    \/ \E t \in Threads : CloseClose(t)
    \/ \E t \in Threads : CallDisable(t)
    \/ \E t \in Threads : DisLock(t)
    \/ \E t \in Threads : DisClose(t)
    \/ \E t \in Threads : DisNil(t)
    \/ \E t \in Threads : DisUnlock(t)
    \/ \E t \in Threads, p \in Paths : CallEnable(t, p)
    \/ \E t \in Threads : EnLock(t)
    \/ \E t \in Threads : EnClose(t)
    \/ \E t \in Threads : EnOpen(t)
    \/ \E t \in Threads : EnAssign(t)
    \/ \E t \in Threads : EnUnlock(t)

Spec == Init /\ [][Next]_vars

(* the steps by which a call of thread t, once made, proceeds to its return *)
Step(t) ==
    \/ MethodGate(t) \/ LogGate(t) \/ ConsolePrintln(t) \/ NilCheck(t)
    \/ Now(t) \/ LogLock(t) \/ FileWrite(t) \/ LogUnlock(t) \/ Exit(t)
    \/ CloseCheck(t) \/ CloseRead(t) \/ CloseClose(t)
    \/ DisLock(t) \/ DisClose(t) \/ DisNil(t) \/ DisUnlock(t)
    \/ EnLock(t) \/ EnClose(t) \/ EnOpen(t) \/ EnAssign(t) \/ EnUnlock(t)

(* The specifications below add settings, a clock or fairness to the calls   *)
(* of Spec, made with fewer arguments: an ordinary level and Fatal, one      *)
(* threshold above the ordinary level, one path that opens and one that      *)
(* does not.                                                                 *)
FewLevels == {INFO, FATAL}
FewPaths == {"b", "bad"}

FewCalls(t) ==
    \/ \E S \in FewLevels : CallLevel(t, S)
    \/ SetLevel(t, ERROR)
    \/ CallClose(t)
    \/ CallDisable(t)
    \/ \E p \in FewPaths : CallEnable(t, p)

(* WithColors options and colour variables of the environment given to NewLogger *)
ColorOpts == {"default", "on", "off"}
ColorEnv == {"", "FORCE_COLOR", "NO_COLOR"}

(* the program that also uses the WithJSON and WithColors settings *)
ModesNext ==
    \/ \E p \in CtorPaths, j \in BOOLEAN, c \in ColorOpts, e \in ColorEnv :
           NewLoggerOpts(p, j, c, e)
    \/ \E t \in Threads : FewCalls(t)
    \/ \E t \in Threads : WithJSON(t)
    \/ \E t \in Threads, enable \in BOOLEAN : WithColors(t, enable)
    \/ \E t \in Threads : Step(t)
    \/ \E t \in Threads : Return(t)

ModesSpec == Init /\ [][ModesNext]_vars

(* the program run while the clock advances *)
TimeNext ==
    \/ \E p \in CtorPaths : NewLogger(p)
    \/ \E t \in Threads : FewCalls(t)
    \/ \E t \in Threads : Step(t)
    \/ \E t \in Threads : Return(t)
    \/ Tick

TimeSpec == Init /\ [][TimeNext]_vars

(* the steps at which a thread waits for the mutex *)
LockStep(t) == LogLock(t) \/ DisLock(t) \/ EnLock(t)

(* the calls that take the mutex or end the process, and Close *)
FairCalls(t) ==
    \/ \E S \in FewLevels : CallLevel(t, S)
    \/ CallClose(t)
    \/ CallDisable(t)
    \/ \E p \in FewPaths : CallEnable(t, p)

(* the program with plain or structured records, scheduled fairly *)
FairNext ==
    \/ \E j \in BOOLEAN : NewLoggerOpts("a", j, "default", "")
    \/ \E t \in Threads : FairCalls(t)
    \/ \E t \in Threads : Step(t)
    \/ \E t \in Threads : Return(t)

(* A goroutine that can take a step is scheduled in the end (the Go scheduler *)
(* preempts running goroutines), and one waiting in l.mu.Lock() gets the      *)
(* mutex in the end although others take and release it meanwhile             *)
(* (sync.Mutex hands the mutex to a waiter that has waited for long).         *)
Fairness ==
    \A t \in Threads : WF_vars(Step(t)) /\ SF_vars(LockStep(t))

FairSpec == Init /\ [][FairNext]_vars /\ Fairness

----------------------------------------------------------------------------
(* Properties *)

Handles == 1 .. Len(handles)
OpenHandles == {h \in Handles : handles[h].open}

(* a thread has finished a level method and has not yet returned to its caller *)
LevelDone(t) == pc[t] \in {"done", "exit", "exited"}
                /\ ret[t] \in {"suppressed", "gated", "logged"}

(* the shared state a suppressed call must leave alone *)
loggerState == <<inst, level, logFile, mu, handles, files, console, exited, exitCode>>

(* C1: a level method whose severity is below the threshold it reads returns  *)
(* at its leading guard: that step prints nothing on the console, appends      *)
(* nothing to any file, changes no field of the logger, and the call is over, *)
(* with or without an open file sink.                                          *)
C1_BelowThresholdSilent ==
    [][\A t \in Threads :
         (pc[t] = "m_gate" /\ pc'[t] # "m_gate" /\ sev[t] < level)
         => /\ pc'[t] = "done"
            /\ ret'[t] = "suppressed"
            /\ cons'[t] = 0 /\ recs'[t] = 0 /\ atts'[t] = 0
            /\ UNCHANGED loggerState]_vars

C1_Witness ==
    \E t \in Threads :
        /\ pc[t] = "done" /\ ret[t] = "suppressed"
        /\ sev[t] = ERROR /\ level = FATAL
        /\ SinkOpen /\ console = 0 /\ files["a"] = << >>

(* C2: a level method called with a severity at or above the threshold, with  *)
(* no other thread acting during the call, prints exactly one console line    *)
(* and, when the file sink is open, appends exactly one record, its own, to   *)
(* that sink's file, and none when it is not; no call ever prints or appends  *)
(* more than one, whatever the other threads do.                               *)
C2_OneLinePerCall ==
    \A t \in Threads :
        /\ cons[t] <= 1 /\ recs[t] <= 1 /\ atts[t] <= 1
        /\ (LevelDone(t) /\ quiet[t] /\ pc[t] # "exited" /\ sev[t] >= level)
           => /\ ret[t] = "logged"
              /\ cons[t] = 1
              /\ recs[t] = (IF SinkOpen THEN 1 ELSE 0)
              /\ SinkOpen =>
                   LET f == files[handles[logFile].path]
                   IN  /\ f # << >>
                       /\ f[Len(f)] = Record(t)

C2_Witness ==
    \E t \in Threads :
        /\ pc[t] = "done" /\ ret[t] = "logged" /\ quiet[t]
        /\ sev[t] = WARNING /\ level = WARNING
        /\ Len(handles) = 2 /\ handles[2].from = "EnableFile" /\ logFile = 2
        /\ cons[t] = 1 /\ recs[t] = 1
        /\ files["b"] = <<[sev |-> WARNING, h |-> 2, ts |-> 0, json |-> FALSE]>>

(* positions between l.mu.Lock() and the deferred l.mu.Unlock() *)
InWrite(t) == pc[t] \in {"write", "unlock"}
InEnable(t) == pc[t] \in {"en_close", "en_open", "en_assign", "en_unlock"}
InDisable(t) == pc[t] \in {"dis_close", "dis_nil", "dis_unlock"}
InSection(t) == InWrite(t) \/ InEnable(t) \/ InDisable(t)

(* C3: at most one thread is inside the file-write section, and none while    *)
(* another is inside EnableFile or DisableFile; the thread inside holds the   *)
(* mutex; and the files change only by the thread in the write section        *)
(* appending one whole record to one file in one step.                         *)
C3_FileWritesSerialized ==
    /\ [](\A t, u \in Threads :
            /\ InSection(t) => mu = t
            /\ (InSection(t) /\ InSection(u)) => t = u)
    /\ [][files' # files =>
            \E t \in Threads, p \in GoodPaths :
                /\ pc[t] = "write" /\ pc'[t] = "unlock" /\ mu = t
                /\ \E rec \in [sev : Levels, h : Handles,
                                  ts : 0 .. MaxClock, json : BOOLEAN] :
                       files' = [files EXCEPT ![p] = Append(@, rec)]]_vars

C3_Witness ==
    \E t, u \in Threads :
        /\ t # u
        /\ pc[t] = "unlock" /\ recs[t] = 1 /\ mu = t
        /\ pc[u] \in {"lock", "en_lock", "dis_lock"}

(* a thread is inside Close: at its nil check, its read of l.logFile or its  *)
(* call of Close on the file                                                  *)
InClose(t) == pc[t] \in {"cl_check", "cl_read", "cl_close"}

(* C4: every access to the file handle is made with the mutex held, so that  *)
(* Close never runs while another thread is inside the file-write section,   *)
(* EnableFile or DisableFile.                                                 *)
C4_HandleAccessSerialized ==
    \A t, u \in Threads : ~(InSection(t) /\ InClose(u))

(* a thread has finished Close and has not yet returned to its caller *)
CloseDone(t) == pc[t] = "done" /\ ret[t] \in {"close_ok", "close_err"}

(* C5: Close returns no error when the instance holds no file, or holds one   *)
(* that an earlier Close has closed (no other thread acting during the call). *)
C5_CloseIdempotent ==
    \A t \in Threads :
        (/\ CloseDone(t) /\ quiet[t]
         /\ \/ logFile = NoFile
            \/ handles[logFile].by = "Close")
        => ret[t] = "close_ok"

(* no call is in progress *)
AtRest == \A t \in Threads : pc[t] \in {"idle", "done"}

(* C6: between calls the sink is Closed (no handle) or Open (a handle that    *)
(* is open), never a handle that has been closed; and it is Closed when Close *)
(* or DisableFile has just returned.                                           *)
C6_SinkClosedOrOpen ==
    /\ (inst = "ok" /\ AtRest) => (logFile = NoFile \/ handles[logFile].open)
    /\ \A t \in Threads :
           (pc[t] = "done" /\ quiet[t]
            /\ ret[t] \in {"close_ok", "close_err", "disabled"})
           => logFile = NoFile

(* C7: when EnableFile has returned an error the instance holds no handle.    *)
C7_EnableFailureLeavesNoSink ==
    \A t \in Threads :
        (pc[t] = "done" /\ ret[t] = "enable_err" /\ quiet[t]) => logFile = NoFile

(* C8: when EnableFile has returned nil (no other thread acting during the    *)
(* call) the instance holds the handle it opened, that handle is the only     *)
(* open one and has the path asked for; and every record appended to a file,  *)
(* by a call begun before or after, goes through the handle the instance      *)
(* holds at that moment, which is open, into that handle's file: none goes    *)
(* through a handle that has been replaced; and a write made while the        *)
(* instance holds an open handle does append its record to that file.         *)
C8_EnableReplacesSink ==
    /\ [](\A t \in Threads :
            (pc[t] = "done" /\ ret[t] = "enable_ok" /\ quiet[t])
            => /\ logFile = fh[t]
               /\ OpenHandles = {logFile}
               /\ handles[logFile].path = arg[t])
    /\ [][\A p \in GoodPaths :
            files'[p] # files[p]
            => /\ IsOpen(handles, logFile)
               /\ handles[logFile].path = p
               /\ Len(files'[p]) = Len(files[p]) + 1
               /\ files'[p][Len(files'[p])].h = logFile]_vars
    /\ [][\A t \in Threads :
            (pc[t] = "write" /\ pc'[t] = "unlock" /\ IsOpen(handles, logFile))
            => files' = [files EXCEPT ![handles[logFile].path] =
                             Append(@, Record(t))]]_vars

C8_Witness ==
    /\ Len(handles) = 2
    /\ handles[1] = [path |-> "a", open |-> FALSE, from |-> "EnableFile", by |-> "EnableFile"]
    /\ handles[2] = [path |-> "b", open |-> TRUE, from |-> "EnableFile", by |-> "nobody"]
    /\ logFile = 2
    /\ files["a"] = << >>
    /\ Len(files["b"]) = 1 /\ files["b"][1].h = 2
    /\ \E t \in Threads : pc[t] = "done" /\ ret[t] = "logged"

(* C9: at most one handle opened by the instance is open, in every state,     *)
(* also inside EnableFile, which closes the handle it replaces before it      *)
(* opens the new one.                                                          *)
C9_AtMostOneOpenHandle ==
    /\ Cardinality(OpenHandles) <= 1
    /\ \A t \in Threads : pc[t] = "en_open" => OpenHandles = {}

C9_Witness ==
    /\ Len(handles) = 3
    /\ handles[1].from = "NewLogger"
    /\ handles[2].by = "EnableFile"
    /\ OpenHandles = {3}
    /\ logFile = 3

(* C10: the process exits only from Fatal, with status 1, after the write     *)
(* path of that call is complete: its console line printed, its file write    *)
(* made when the instance held a file (its record appended when, no other     *)
(* thread acting, the sink was open), the mutex not held by the caller; and   *)
(* once the process has exited nothing changes any more.                       *)
C10_FatalExitsAfterWrite ==
    /\ [](\A t \in Threads :
            pc[t] \in {"exit", "exited"}
            => /\ sev[t] = FATAL
               /\ ret[t] = "logged"
               /\ cons[t] = 1
               /\ mu # t
               /\ recs[t] <= atts[t]
               /\ quiet[t] => recs[t] = (IF SinkOpen THEN 1 ELSE 0))
    /\ [](exited <=> \E t \in Threads : pc[t] = "exited")
    /\ [](exited => exitCode = 1)
    /\ [](~exited => exitCode = 0)
    /\ [][exited => UNCHANGED vars]_vars

C10_Witness ==
    \E t \in Threads :
        /\ exited /\ exitCode = 1 /\ pc[t] = "exited"
        /\ sev[t] = FATAL /\ level = FATAL
        /\ cons[t] = 1 /\ recs[t] = 1
        /\ files["a"] = <<[sev |-> FATAL, h |-> 1, ts |-> 0, json |-> FALSE]>>
        /\ mu = Unlocked

(* a level call whose file write failed: attempted, nothing appended *)
WriteFailed(t) == atts[t] = 1 /\ recs[t] = 0

(* C11: a file write that fails (on a nil or closed file), of a plain line or *)
(* of a structured record, changes nothing: no file, no field of the logger,  *)
(* no setting; it is made once and the call goes on to its                    *)
(* Unlock; the call then returns "logged" with its console line printed and   *)
(* the mutex not held by the caller.                                           *)
C11_WriteFailureSwallowed ==
    /\ [][\A t \in Threads :
            (pc[t] = "write" /\ pc'[t] # "write" /\ ~IsOpen(handles, logFile))
            => /\ pc'[t] = "unlock"
               /\ atts'[t] = 1 /\ recs'[t] = 0 /\ cons'[t] = 1
               /\ UNCHANGED <<loggerState, config>>]_vars
    /\ [](\A t \in Threads :
            /\ atts[t] <= 1
            /\ pc[t] = "write" => atts[t] = 0
            /\ (LevelDone(t) /\ WriteFailed(t))
               => (ret[t] = "logged" /\ cons[t] = 1 /\ mu # t))

C11_Witness ==
    \E t \in Threads :
        /\ pc[t] = "done" /\ ret[t] = "logged" /\ sev[t] = INFO
        /\ WriteFailed(t) /\ cons[t] = 1
        /\ mu = Unlocked
        /\ files["a"] = << >> /\ files["b"] = << >>

(* C12: DisableFile with no handle held changes neither the handle table,    *)
(* nor l.logFile, nor the files; when it has returned (no other thread acting *)
(* during the call) the instance holds no handle, no handle is open and the   *)
(* mutex is free; and a level call that runs while the instance holds no      *)
(* handle prints its console line and attempts no file write.                 *)
C12_DisableFileIdempotent ==
    /\ [][\A t \in Threads :
            (pc[t] = "dis_close" /\ pc'[t] # "dis_close" /\ logFile = NoFile)
            => /\ pc'[t] = "dis_unlock"
               /\ UNCHANGED <<logFile, handles, files, console, level>>]_vars
    /\ [](\A t \in Threads :
            /\ (pc[t] = "done" /\ ret[t] = "disabled" /\ quiet[t])
               => (logFile = NoFile /\ OpenHandles = {} /\ mu = Unlocked)
            /\ (LevelDone(t) /\ pc[t] # "exited" /\ quiet[t]
                /\ logFile = NoFile /\ sev[t] >= level)
               => (ret[t] = "logged" /\ cons[t] = 1 /\ atts[t] = 0 /\ recs[t] = 0))

C12_Witness ==
    \E t \in Threads :
        /\ pc[t] = "done" /\ ret[t] = "logged" /\ quiet[t]
        /\ Len(handles) = 1 /\ handles[1].by = "DisableFile"
        /\ logFile = NoFile
        /\ cons[t] = 1 /\ atts[t] = 0
        /\ files["a"] = << >>
        /\ nops = 3

(* what NewLogger(p) must leave behind *)
NewLoggerPost(p) ==
    IF p # "" /\ ~OpenOK(p)
    THEN inst' = "failed" /\ handles' = << >> /\ logFile' = NoFile
    ELSE /\ inst' = "ok"
         /\ IF p = ""
            THEN logFile' = NoFile /\ handles' = << >>
            ELSE /\ logFile' = 1
                 /\ handles' = <<[path |-> p, open |-> TRUE,
                                  from |-> "NewLogger", by |-> "nobody"]>>

(* C14: NewLogger with a path that cannot be opened returns no instance (no   *)
(* method ever runs on it, no handle exists); otherwise it returns an         *)
(* instance, whose sink is Open exactly when a non-empty path was given.      *)
C14_NewLoggerAllOrNothing ==
    /\ [][\A p \in CtorPaths : NewLogger(p) => NewLoggerPost(p)]_vars
    /\ [](inst = "failed"
          => /\ handles = << >> /\ logFile = NoFile /\ nops = 0
             /\ \A t \in Threads : pc[t] = "idle")
    /\ []((inst = "ok" /\ nops = 0) => (SinkOpen <=> logFile # NoFile))

C14_Witness ==
    /\ inst = "failed"
    /\ handles = << >>
    /\ \A t \in Threads : pc[t] = "idle"

(* C16: a level call about to make its file write, the mutex held, finds the  *)
(* instance holding a handle that is open.                                     *)
C16_WriteOnlyWhenOpen ==
    \A t \in Threads : (pc[t] = "write" /\ mu = t) => IsOpen(handles, logFile)

(* positions of log before its l.mu.Lock() *)
BeforeLock(t) == pc[t] \in {"m_gate", "l_gate", "console", "nil_check", "lock"}

(* C17: a level call that has passed the guards prints its console line       *)
(* without holding or taking the mutex: the step is enabled whoever holds the *)
(* mutex, prints one line and leaves the mutex as it is, the same with and    *)
(* without a file handle.                                                      *)
C17_ConsoleOutsideMutex ==
    /\ [](\A t \in Threads :
            /\ BeforeLock(t) => mu # t
            /\ (Running(t) /\ pc[t] = "console") => ENABLED ConsolePrintln(t))
    /\ [][\A t \in Threads :
            (pc[t] = "console" /\ pc'[t] # "console")
            => /\ console' = console + 1
               /\ cons'[t] = 1
               /\ pc'[t] = "nil_check"
               /\ mu' = mu /\ logFile' = logFile]_vars

C17_Witness ==
    \E t, u \in Threads :
        /\ t # u
        /\ pc[t] = "nil_check" /\ cons[t] = 1 /\ quiet[t]
        /\ mu = u /\ InSection(u)
        /\ console = 1

(* C13: a level call during which no other thread acts prints its console    *)
(* line with a coloured prefix exactly when colours are enabled               *)
(* (color.NoColor is false), so that a WithColors call on the instance         *)
(* changes the lines logged after it.                                          *)
C13_ColorsToggleAtRuntime ==
    [][\A t \in Threads :
         (pc[t] = "console" /\ pc'[t] = "nil_check" /\ quiet[t])
         => (lastColored' <=> ~noColor)]_vars

(* the record a step has appended to file p *)
Appended(p) == files'[p][Len(files'[p])]

(* C15 as stated: structured mode is never turned off, and every record       *)
(* appended to a file while structured mode is on is a structured record.     *)
C15_StructuredEveryRecordAfter ==
    [][/\ jsonMode => jsonMode'
       /\ \A p \in GoodPaths :
             (files'[p] # files[p] /\ jsonMode) => Appended(p).json]_vars

(* C15, amended: structured mode is never turned off by any operation; a log  *)
(* call that takes the mutex while structured mode is on takes the structured *)
(* branch, and the record it appends is the one of the branch it took; so a   *)
(* level call made after WithJSON, no other thread acting during it, leaves a *)
(* structured record as the last of the file.                                  *)
C15_StructuredOneWay ==
    /\ [][/\ jsonMode => jsonMode'
          /\ \A t \in Threads :
                /\ (pc[t] = "lock" /\ pc'[t] = "write") => (js'[t] <=> jsonMode)
                /\ (pc[t] = "write" /\ pc'[t] = "unlock")
                   => \A p \in GoodPaths :
                          files'[p] # files[p] => (Appended(p).json <=> js[t])]_vars
    /\ [](\A t \in Threads :
            (LevelDone(t) /\ quiet[t] /\ recs[t] = 1 /\ jsonMode)
            => \E p \in GoodPaths :
                   /\ files[p] # << >>
                   /\ files[p][Len(files[p])].json
                   /\ files[p][Len(files[p])].sev = sev[t])

C15_Witness ==
    \E t \in Threads :
        /\ pc[t] = "done" /\ ret[t] = "logged" /\ quiet[t] /\ recs[t] = 1
        /\ jsonMode
        /\ Len(files["a"]) = 2
        /\ ~files["a"][1].json /\ files["a"][2].json

(* C19 as stated: in every file the records are in non-decreasing order of   *)
(* the timestamps they carry.                                                 *)
C19_RecordsInTimestampOrder ==
    \A p \in GoodPaths :
        \A i, j \in 1 .. Len(files[p]) :
            i < j => files[p][i].ts <= files[p][j].ts

(* C19, amended: a record carries the time its call read before taking the   *)
(* mutex; no record carries a time later than the clock; and a call that      *)
(* reads the clock when a record is already in a file reads a time that is    *)
(* not earlier than that record's.  So the records of calls of which each     *)
(* read the clock after the one before had written are in order; those of     *)
(* calls that overlap can be in either order.                                 *)
C19_InOrderWhenNotOverlapping ==
    /\ [](\A p \in GoodPaths :
            \A i \in 1 .. Len(files[p]) : files[p][i].ts <= clock)
    /\ [][\A t \in Threads :
            /\ (pc[t] = "now" /\ pc'[t] = "lock")
               => \A p \in GoodPaths :
                      \A i \in 1 .. Len(files[p]) : files[p][i].ts <= ts'[t]
            /\ (pc[t] = "write" /\ pc'[t] = "unlock")
               => \A p \in GoodPaths :
                      files'[p] # files[p] => Appended(p).ts = ts[t]]_vars
    /\ [](\A t \in Threads :
            (LevelDone(t) /\ quiet[t] /\ recs[t] = 1)
            => \E p \in GoodPaths :
                   /\ files[p] # << >>
                   /\ \A i \in 1 .. Len(files[p]) :
                          files[p][i].ts <= files[p][Len(files[p])].ts)

C19_Witness ==
    \E t \in Threads :
        /\ pc[t] = "done" /\ ret[t] = "logged" /\ quiet[t] /\ recs[t] = 1
        /\ Len(files["a"]) = 2
        /\ files["a"][1].ts < files["a"][2].ts
        /\ files["a"][2].ts = clock

(* a thread is in no call: it has not made one or the last has returned *)
Returned(t) == pc[t] \in {"idle", "done"}

(* C18: under fair scheduling every call a thread is in returns, or the       *)
(* process has exited (Fatal, of this thread or another); the mutex is held   *)
(* only by a thread between its Lock and its Unlock; the Unlock steps of log  *)
(* (plain or structured branch), of DisableFile and of EnableFile (open       *)
(* failed or not) free it; and it is free whenever no call is in progress.    *)
C18_CallsReturnMutexFreed ==
    /\ \A t \in Threads : (~Returned(t)) ~> (Returned(t) \/ exited)
    /\ [](\A t \in Threads : mu = t => InSection(t))
    /\ []((\A t \in Threads : Returned(t)) => mu = Unlocked)
    /\ [][\A t \in Threads :
            (pc[t] \in {"unlock", "dis_unlock", "en_unlock"} /\ pc'[t] # pc[t])
            => (mu = t /\ mu' = Unlocked)]_vars

C18_Witness ==
    \E t, u \in Threads :
        /\ t # u
        /\ pc[t] = "done" /\ ret[t] = "enable_err"
        /\ mu = u /\ pc[u] = "write" /\ js[u]
        /\ ~quiet[u]

====
